---- MODULE Spec2Model ----
(***************************************************************************)
(* Model of src/homework.py: class CheckingPhenomenon, the "Getting to     *)
(* Philosophy" crawler.  Strings that the code inspects character by       *)
(* character (hrefs, page text) are sequences of one-character strings; a  *)
(* URL is the origin followed by the characters of its path; heading texts *)
(* are only compared for equality and stay strings.                        *)
(***************************************************************************)
EXTENDS Integers, Sequences, FiniteSets, Bags, TLC

VARIABLES
    web,                \* the HTTP server side: live (any answer) or a fixed page graph
    url,                \* self._url
    max_page_number,    \* self._max_page_number
    wiki_words_counter, \* self._wiki_words_counter (a Counter: a bag of words)
    total_words,        \* self._total_number_of_words_on_wiki_pages
    content,            \* self._content
    visited_pages,      \* self._visited_pages
    heading,            \* self._heading
    current_url,        \* local current_url of the last _parse_and_count_words call
    i,                  \* loop variable of run()
    pc,                 \* where run() is: Running or the way it ended
    out,                \* lines printed so far
    exit_code,          \* process exit status, -1 while the process runs
    requests_made,      \* number of requests.get calls so far
    pages_fetched,      \* number of requests.get calls that returned a response
    given_word,         \* the word _strip_and_lowercase_the_word is called with
    returned_word       \* what _strip_and_lowercase_the_word returned

vars == <<web, url, max_page_number, wiki_words_counter, total_words, content,
          visited_pages, heading, current_url, i, pc, out, exit_code,
          requests_made, pages_fetched, given_word, returned_word>>

----------------------------------------------------------------------------
(* Bounds of the model *)

MaxPageNumber == 3     \* max_page_number ranges over 0..MaxPageNumber
MaxTags == 2            \* SpecSelect: a content node holds at most MaxTags tags
MaxChain == 3           \* longest chain scenario P1 -> ... -> Pn
MaxWordLen == 3         \* SpecNormalize: a token holds at most MaxWordLen characters

PageNames == {"A", "B", "C"}
Letters == <<"A", "B", "C", "D", "E", "F">>

----------------------------------------------------------------------------
(* Strings as character sequences *)

\* The origin is never looked into by the code: it is one element of a URL, the
\* characters of the href follow it.
Origin == <<"https://en.wikipedia.org">>

WikiPrefix == <<"/","w","i","k","i">>

StartsWith(s, p) == Len(s) >= Len(p) /\ SubSeq(s, 1, Len(p)) = p

Contains(s, c) == \E k \in 1..Len(s) : s[k] = c

Href(name) == WikiPrefix \o <<"/", name>>

CategoryHref == WikiPrefix \o <<"/","C","a","t",":","F","o","o">>
OtherHref == <<"/","o","t","h","e","r">>

DefaultStartingUrl ==
    Origin \o WikiPrefix \o <<"/","S","p","e","c","i","a","l",":","R","a","n","d","o","m">>

\* f"https://en.wikipedia.org{tag['href']}"
AbsoluteUrl(href) == Origin \o href

PageUrl(name) == AbsoluteUrl(Href(name))
PageUrls == {PageUrl(n) : n \in PageNames}

----------------------------------------------------------------------------
(* Word preparation: _strip_and_lowercase_the_word *)

\* Mutant: the backslash is missing from the strip set.
StripCharsWithoutBackslash ==
    {"(", ")", "^", "%", "#", "@", "&", "!", "?", "-", ".", ",", "[", "]",
     ":", ";", "\"", "'", "/"}

StripChars ==
    {"(", ")", "^", "%", "#", "@", "&", "!", "?", "-", ".", ",", "[", "]",
     ":", ";", "\"", "'", "\\", "/"}

LowerOf ==
    [A |-> "a", B |-> "b", C |-> "c", D |-> "d", E |-> "e", F |-> "f", G |-> "g",
     H |-> "h", I |-> "i", J |-> "j", K |-> "k", L |-> "l", M |-> "m", N |-> "n",
     O |-> "o", P |-> "p", Q |-> "q", R |-> "r", S |-> "s", T |-> "t", U |-> "u",
     V |-> "v", W |-> "w", X |-> "x", Y |-> "y", Z |-> "z"]

LowerChar(c) == IF c \in DOMAIN LowerOf THEN LowerOf[c] ELSE c

Lower(s) == [k \in 1..Len(s) |-> LowerChar(s[k])]

RECURSIVE LStrip(_)
LStrip(s) ==
    IF s # <<>> /\ Head(s) \in StripChars THEN LStrip(Tail(s)) ELSE s

RECURSIVE RStrip(_)
RStrip(s) ==
    IF s # <<>> /\ s[Len(s)] \in StripChars THEN RStrip(SubSeq(s, 1, Len(s) - 1)) ELSE s

StripAndLowercaseTheWord(word) == Lower(RStrip(LStrip(word)))

----------------------------------------------------------------------------
(* str.split(): the maximal runs of non-whitespace characters, in order *)

Whitespace == {" "}

TokenEnd(s) ==
    IF \E k \in 1..Len(s) : s[k] \in Whitespace
    THEN (CHOOSE k \in 1..Len(s) :
              /\ s[k] \in Whitespace
              /\ \A j \in 1..(k - 1) : s[j] \notin Whitespace) - 1
    ELSE Len(s)

RECURSIVE Split(_)
Split(s) ==
    IF s = <<>> THEN <<>>
    ELSE IF Head(s) \in Whitespace THEN Split(Tail(s))
    ELSE <<SubSeq(s, 1, TokenEnd(s))>> \o Split(SubSeq(s, TokenEnd(s) + 1, Len(s)))

\* The inner loop over the tokens of one text fragment overwrites
\* prepared_word on every pass: what is left is the last token, prepared.
PreparedWord(tokens) ==
    IF tokens = <<>> THEN <<>> ELSE StripAndLowercaseTheWord(tokens[Len(tokens)])

\* Mutant: the "if prepared_word" test is dropped.
RECURSIVE WordsOfKeepingEmpty(_)
WordsOfKeepingEmpty(strings) ==
    IF strings = <<>> THEN <<>>
    ELSE <<PreparedWord(Split(Head(strings)))>> \o WordsOfKeepingEmpty(Tail(strings))

RECURSIVE WordsOf(_)
WordsOf(strings) ==
    IF strings = <<>> THEN <<>>
    ELSE LET prepared_word == PreparedWord(Split(Head(strings)))
         IN (IF prepared_word # <<>> THEN <<prepared_word>> ELSE <<>>)
                \o WordsOf(Tail(strings))

GetWordsFromPage(c) == WordsOf(c.strings)

\* Counter(words)
RECURSIVE Counter(_)
Counter(words) ==
    IF words = <<>> THEN EmptyBag
    ELSE SetToBag({Head(words)}) (+) Counter(Tail(words))

----------------------------------------------------------------------------
(* Pages *)

NoNode == [found |-> FALSE]      \* None: before the first fetch, or soup.find found nothing

Anchor(href) == [name |-> "a", has_href |-> TRUE, href |-> href]
AnchorNoHref == [name |-> "a", has_href |-> FALSE, href |-> <<>>]
LinkTag(href) == [name |-> "link", has_href |-> TRUE, href |-> href]

HeadingNode(text) == [found |-> TRUE, text |-> text]
ContentNode(tags, strings) == [found |-> TRUE, tags |-> tags, strings |-> strings]

PhilosophyText == "Philosophy"
OtherText == "Philosophy of science"

Headings == {NoNode, HeadingNode(PhilosophyText), HeadingNode(OtherText)}

\* stripped_strings of a page: text fragments, each a character sequence
TextMixed == << <<"(","a",")"," ","B","!">>, <<"-","-">>, <<"H","i",",">> >>
Texts == {<<>>, TextMixed}

SeqsUpTo(S, n) == UNION {[1..k -> S] : k \in 0..n}

IsInjective(f) == \A a, b \in DOMAIN f : f[a] = f[b] => a = b

\* the link lists of the pages the live server serves: every list of distinct
\* anchors to the pages of PageNames
LiveTags == {Anchor(Href(n)) : n \in PageNames}

LiveTagLists == {t \in SeqsUpTo(LiveTags, Cardinality(LiveTags)) : IsInjective(t)}

LiveContents ==
    {NoNode} \cup {ContentNode(t, s) : t \in LiveTagLists, s \in Texts}

FetchFailure == [ok |-> FALSE]
Response(final, h, c) == [ok |-> TRUE, url |-> final, heading |-> h, content |-> c]

LiveResponses ==
    {FetchFailure} \cup
    {Response(f, h, c) : f \in PageUrls, h \in Headings, c \in LiveContents}

----------------------------------------------------------------------------
(* Link selection: _check_good_link and _find_and_save_next_url *)

\* Mutant: the colon test is dropped.
CheckGoodLinkAllowingColon(tag) ==
    /\ tag.name = "a"
    /\ tag.has_href
    /\ StartsWith(tag.href, WikiPrefix)

CheckGoodLink(tag) ==
    /\ tag.name = "a"
    /\ tag.has_href
    /\ StartsWith(tag.href, WikiPrefix)
    /\ ~Contains(tag.href, ":")

NotFound == <<>>     \* the loop of _find_and_save_next_url ended without a return

\* Mutant: the membership test of the visited set is dropped.
FindNextUrlIgnoringVisited(tags, visited) ==
    LET good == SelectSeq(tags, CheckGoodLink)
    IN IF good = <<>> THEN NotFound ELSE AbsoluteUrl(Head(good).href)

\* Mutant: when every good link is visited, the first good link is returned.
FindNextUrlFallingBack(tags, visited) ==
    LET good == SelectSeq(tags, CheckGoodLink)
        fresh == SelectSeq(good, LAMBDA tag : AbsoluteUrl(tag.href) \notin visited)
    IN IF good = <<>> THEN NotFound
       ELSE IF fresh = <<>> THEN AbsoluteUrl(Head(good).href)
       ELSE AbsoluteUrl(Head(fresh).href)

\* The value _find_and_save_next_url returns, or NotFound when its loop ends.
FindNextUrl(tags, visited) ==
    LET good == SelectSeq(tags, CheckGoodLink)
        fresh == SelectSeq(good, LAMBDA tag : AbsoluteUrl(tag.href) \notin visited)
    IN IF fresh = <<>> THEN NotFound ELSE AbsoluteUrl(Head(fresh).href)

----------------------------------------------------------------------------
(* The server side *)

LiveWeb == [kind |-> "live"]
StaticWeb(pages) == [kind |-> "static", pages |-> pages]

\* P1 -> P2 -> ... -> Pn, only Pn is headed "Philosophy", every page has one link
ChainPages(n, strings) ==
    [u \in {PageUrl(Letters[k]) : k \in 1..n} |->
        LET k == CHOOSE j \in 1..n : PageUrl(Letters[j]) = u
        IN Response(u,
                    HeadingNode(IF k = n THEN PhilosophyText ELSE OtherText),
                    ContentNode(<<Anchor(Href(Letters[k + 1]))>>, strings))]

ChainWeb(n, strings) == StaticWeb(ChainPages(n, strings))

\* A -> B -> A
CyclePages(strings) ==
    [u \in {PageUrl("A"), PageUrl("B")} |->
        Response(u, HeadingNode(OtherText),
                 ContentNode(<<Anchor(Href(IF u = PageUrl("A") THEN "B" ELSE "A"))>>,
                             strings))]

CycleWeb(strings) == StaticWeb(CyclePages(strings))

StaticWebs ==
    {ChainWeb(n, s) : n \in 1..MaxChain, s \in Texts} \cup {CycleWeb(s) : s \in Texts}

Webs == {LiveWeb} \cup StaticWebs

StartingUrls(w) ==
    IF w.kind = "live" THEN {DefaultStartingUrl, PageUrl("A")} ELSE {PageUrl("A")}

\* what requests.get(u) can come back with
Serve(u) ==
    IF web.kind = "live" THEN LiveResponses
    ELSE IF u \in DOMAIN web.pages THEN {web.pages[u]}
    ELSE {FetchFailure}

----------------------------------------------------------------------------
(* Printed lines *)

HeadingLine(text) == [line |-> "heading", text |-> text]
FoundLine(n) == [line |-> "found", iterations |-> n]
LoopLine == [line |-> "loop"]
LoopUrlLine(u) == [line |-> "loop_url", url |-> u]
ErrorLine == [line |-> "error"]
ExhaustedLine(n) == [line |-> "exhausted", iterations |-> n]
TopWordsLine == [line |-> "top_words"]
AverageLine(n) == [line |-> "average", words |-> n]

\* Mutant: the quotient is rounded up.
StatisticsLinesRoundingUp(total, number_of_iterations) ==
    IF number_of_iterations = 0
    THEN <<TopWordsLine>>
    ELSE <<TopWordsLine,
           AverageLine((total + number_of_iterations - 1) \div number_of_iterations)>>

\* _print_statistics: the second print divides by number_of_iterations
StatisticsLines(total, number_of_iterations) ==
    IF number_of_iterations = 0
    THEN <<TopWordsLine>>
    ELSE <<TopWordsLine, AverageLine(total \div number_of_iterations)>>

StatisticsExitCode(number_of_iterations) ==
    IF number_of_iterations = 0 THEN 1 ELSE 0

IsPhilosophy(h) == h.text = PhilosophyText

\* Mutant: the one-based count is printed.
FoundIterationsOneBased(index) == index + 1

\* the {i} of the "Got to Philosophy page in {i} iterations" line
FoundIterations(index) == index

----------------------------------------------------------------------------
(* State machine *)

Init ==
    /\ \E w \in Webs : web = w /\ url \in StartingUrls(w)
    /\ max_page_number \in 0..MaxPageNumber
    /\ wiki_words_counter = EmptyBag
    /\ total_words = 0
    /\ content = NoNode
    /\ visited_pages = {}
    /\ heading = NoNode
    /\ current_url = NotFound
    /\ i = 0
    /\ pc = "Running"
    /\ out = <<>>
    /\ exit_code = -1
    /\ requests_made = 0
    /\ pages_fetched = 0
    /\ given_word = <<>>
    /\ returned_word = <<>>

InLoop == pc = "Running" /\ i < max_page_number

\* requests.get raises: except Exception prints it and exits
FetchRaises(resp) ==
    /\ InLoop
    /\ ~resp.ok
    /\ requests_made' = requests_made + 1
    /\ out' = Append(out, ErrorLine)
    /\ pc' = "Failed"
    /\ exit_code' = 0
    /\ UNCHANGED <<web, url, max_page_number, wiki_words_counter, total_words,
                   content, visited_pages, heading, current_url, i, pages_fetched,
                   given_word, returned_word>>

\* Mutant: the set is replaced by the page just fetched.
AddVisitedReplacing(visited, final) == {final}

\* self._visited_pages.add(current_url)
AddVisited(visited, final) == visited \cup {final}

\* the part of _parse_and_count_words every returned response goes through
Fetched(resp) ==
    /\ requests_made' = requests_made + 1
    /\ pages_fetched' = pages_fetched + 1
    /\ current_url' = resp.url
    /\ visited_pages' = AddVisited(visited_pages, resp.url)
    /\ heading' = resp.heading
    /\ content' = resp.content
    /\ UNCHANGED <<web, max_page_number, given_word, returned_word>>

\* no mw-content-text node: _get_words_from_page raises on None
ContentMissing(resp) ==
    /\ InLoop
    /\ resp.ok
    /\ ~resp.content.found
    /\ Fetched(resp)
    /\ out' = Append(out, ErrorLine)
    /\ pc' = "Failed"
    /\ exit_code' = 0
    /\ UNCHANGED <<url, wiki_words_counter, total_words, i>>

Counted(resp) ==
    /\ Fetched(resp)
    /\ LET words == GetWordsFromPage(resp.content)
       IN /\ wiki_words_counter' = wiki_words_counter (+) Counter(words)
          /\ total_words' = total_words + Len(words)

Selected(resp) == FindNextUrl(resp.content.tags, AddVisited(visited_pages, resp.url))

\* _find_and_save_next_url finds nothing: two lines and exit(code=0)
DeadEnd(resp) ==
    /\ InLoop
    /\ resp.ok
    /\ resp.content.found
    /\ Selected(resp) = NotFound
    /\ Counted(resp)
    /\ out' = out \o <<LoopLine, LoopUrlLine(url)>>
    /\ pc' = "DeadEnd"
    /\ exit_code' = 0
    /\ UNCHANGED <<url, i>>

\* no firstHeading node: print(self._heading.text) raises on None
HeadingMissing(resp) ==
    /\ InLoop
    /\ resp.ok
    /\ resp.content.found
    /\ ~resp.heading.found
    /\ Selected(resp) # NotFound
    /\ Counted(resp)
    /\ url' = Selected(resp)
    /\ out' = Append(out, ErrorLine)
    /\ pc' = "Failed"
    /\ exit_code' = 0
    /\ UNCHANGED i

PhilosophyFound(resp) ==
    /\ InLoop
    /\ resp.ok
    /\ resp.content.found
    /\ resp.heading.found
    /\ IsPhilosophy(resp.heading)
    /\ Selected(resp) # NotFound
    /\ Counted(resp)
    /\ url' = Selected(resp)
    /\ out' = out \o <<HeadingLine(resp.heading.text), FoundLine(FoundIterations(i))>>
                  \o StatisticsLines(total_words', i + 1)
    /\ pc' = "FoundPhilosophy"
    /\ exit_code' = StatisticsExitCode(i + 1)
    /\ UNCHANGED i

NextPage(resp) ==
    /\ InLoop
    /\ resp.ok
    /\ resp.content.found
    /\ resp.heading.found
    /\ ~IsPhilosophy(resp.heading)
    /\ Selected(resp) # NotFound
    /\ Counted(resp)
    /\ url' = Selected(resp)
    /\ out' = Append(out, HeadingLine(resp.heading.text))
    /\ i' = i + 1
    /\ UNCHANGED <<pc, exit_code>>

\* the for loop of run() is over
BudgetExhausted ==
    /\ pc = "Running"
    /\ i >= max_page_number
    /\ out' = Append(out, ExhaustedLine(max_page_number))
                  \o StatisticsLines(total_words, max_page_number)
    /\ pc' = "Exhausted"
    /\ exit_code' = StatisticsExitCode(max_page_number)
    /\ UNCHANGED <<web, url, max_page_number, wiki_words_counter, total_words,
                   content, visited_pages, heading, current_url, i,
                   requests_made, pages_fetched, given_word, returned_word>>

Next ==
    \/ \E resp \in Serve(url) : FetchRaises(resp)
    \/ \E resp \in Serve(url) : ContentMissing(resp)
    \/ \E resp \in Serve(url) : DeadEnd(resp)
    \/ \E resp \in Serve(url) : HeadingMissing(resp)
    \/ \E resp \in Serve(url) : PhilosophyFound(resp)
    \/ \E resp \in Serve(url) : NextPage(resp)
    \/ BudgetExhausted

Spec == Init /\ [][Next]_vars

----------------------------------------------------------------------------
(* _find_and_save_next_url on its own: any content, any visited set *)

SelectTags ==
    {Anchor(Href(n)) : n \in PageNames}
        \cup {Anchor(CategoryHref), Anchor(OtherHref), Anchor(WikiPrefix),
              AnchorNoHref, LinkTag(Href("A"))}

SelectContents == {ContentNode(t, <<>>) : t \in SeqsUpTo(SelectTags, MaxTags)}

InitSelect ==
    /\ web = LiveWeb
    /\ url = DefaultStartingUrl
    /\ max_page_number = 1
    /\ wiki_words_counter = EmptyBag
    /\ total_words = 0
    /\ content \in SelectContents
    /\ visited_pages \in SUBSET PageUrls
    /\ heading = NoNode
    /\ current_url = NotFound
    /\ i = 0
    /\ pc = "Selecting"
    /\ out = <<>>
    /\ exit_code = -1
    /\ requests_made = 0
    /\ pages_fetched = 0
    /\ given_word = <<>>
    /\ returned_word = <<>>

SelectReturns ==
    /\ pc = "Selecting"
    /\ FindNextUrl(content.tags, visited_pages) # NotFound
    /\ url' = FindNextUrl(content.tags, visited_pages)
    /\ pc' = "Selected"
    /\ UNCHANGED <<web, max_page_number, wiki_words_counter, total_words, content,
                   visited_pages, heading, current_url, i, out, exit_code,
                   requests_made, pages_fetched, given_word, returned_word>>

SelectExits ==
    /\ pc = "Selecting"
    /\ FindNextUrl(content.tags, visited_pages) = NotFound
    /\ out' = out \o <<LoopLine, LoopUrlLine(url)>>
    /\ pc' = "DeadEnd"
    /\ exit_code' = 0
    /\ UNCHANGED <<web, url, max_page_number, wiki_words_counter, total_words,
                   content, visited_pages, heading, current_url, i,
                   requests_made, pages_fetched, given_word, returned_word>>

NextSelect == SelectReturns \/ SelectExits

SpecSelect == InitSelect /\ [][NextSelect]_vars

----------------------------------------------------------------------------
(* _strip_and_lowercase_the_word on its own: any token over WordAlphabet *)

WordAlphabet ==
    {"(", ")", "[", "]", "\"", "'", "-", ".", ",", ":", ";", "/", "\\", "^", "%",
     "#", "&", "!", "?", "@", "a", "B"}

InitNormalize ==
    /\ web = LiveWeb
    /\ url = DefaultStartingUrl
    /\ max_page_number = 1
    /\ wiki_words_counter = EmptyBag
    /\ total_words = 0
    /\ content = NoNode
    /\ visited_pages = {}
    /\ heading = NoNode
    /\ current_url = NotFound
    /\ i = 0
    /\ pc = "Stripping"
    /\ out = <<>>
    /\ exit_code = -1
    /\ requests_made = 0
    /\ pages_fetched = 0
    /\ given_word \in SeqsUpTo(WordAlphabet, MaxWordLen)
    /\ returned_word = <<>>

StripAndLowercase ==
    /\ pc = "Stripping"
    /\ returned_word' = StripAndLowercaseTheWord(given_word)
    /\ pc' = "Stripped"
    /\ UNCHANGED <<web, url, max_page_number, wiki_words_counter, total_words,
                   content, visited_pages, heading, current_url, i, out, exit_code,
                   requests_made, pages_fetched, given_word>>

NextNormalize == StripAndLowercase

SpecNormalize == InitNormalize /\ [][NextNormalize]_vars

----------------------------------------------------------------------------
(* Properties *)

Verdicts == {"FoundPhilosophy", "DeadEnd", "Exhausted"}

\* the two statistics lines are the last two lines printed
StatisticsPrinted ==
    /\ Len(out) >= 2
    /\ out[Len(out) - 1].line = "top_words"
    /\ out[Len(out)].line = "average"

\* the predicate of the specification's link selector, character by character
Qualifies(tag) ==
    /\ tag.name = "a"
    /\ tag.has_href
    /\ Len(tag.href) >= 5
    /\ tag.href[1] = "/" /\ tag.href[2] = "w" /\ tag.href[3] = "i"
    /\ tag.href[4] = "k" /\ tag.href[5] = "i"
    /\ \A k \in 1..Len(tag.href) : tag.href[k] # ":"

FreshAt(k) ==
    /\ Qualifies(content.tags[k])
    /\ (Origin \o content.tags[k].href) \notin visited_pages

HasFresh == \E k \in 1..Len(content.tags) : FreshAt(k)

FirstFresh == CHOOSE k \in 1..Len(content.tags) : FreshAt(k) /\ \A j \in 1..(k - 1) : ~FreshAt(j)

HeadingIsPhilosophy == heading.found /\ heading.text = "Philosophy"

\* C1 (as claimed): a fetched page headed exactly "Philosophy" (with its content
\* node present) ends the run in FoundPhilosophy in that iteration, whatever its
\* links are; it never ends as DeadEnd.
C1_PhilosophyPageEndsFound ==
    (pages_fetched > 0 /\ HeadingIsPhilosophy /\ content.found) => pc = "FoundPhilosophy"

\* C2: whenever a link selection has stored its result in url, that URL is not in
\* the visited set and is the absolute URL of an anchor of the page; every visited
\* target is skipped, not only the page just fetched.
C2_SelectedUrlNotVisited ==
    (content.found /\ pc # "DeadEnd") =>
        /\ url \notin visited_pages
        /\ \E k \in 1..Len(content.tags) : url = Origin \o content.tags[k].href

C2_Witness ==
    /\ pc = "Running"
    /\ content.found
    /\ Len(content.tags) >= 2
    /\ (Origin \o content.tags[1].href) \in (visited_pages \ {current_url})
    /\ url = Origin \o content.tags[2].href

\* C3 (as claimed): no two fetches resolve to the same final URL, so the visited
\* set has as many elements as pages were fetched.
C3_OneVisitPerPage == Cardinality(visited_pages) = pages_fetched

\* C4 (as claimed): at most max_page_number fetches are made; a run that ends
\* Exhausted made exactly max_page_number fetches and then reported the
\* statistics; nothing happens after a terminal state.
C4_BudgetBoundsRun ==
    /\ requests_made <= max_page_number
    /\ pc = "Exhausted" => (requests_made = max_page_number /\ StatisticsPrinted)
    /\ pc # "Running" => ~ENABLED Next

\* C5: a fetched page not headed "Philosophy" whose content has no qualifying
\* anchor outside the visited set ends the run in DeadEnd in that iteration, and
\* nothing is fetched afterwards; on the cycle A -> B -> A, with room for two
\* fetches, the run ends in DeadEnd on B with {A, B} visited.
C5_NoFreshLinkIsDeadEnd ==
    /\ (pages_fetched > 0 /\ content.found /\ ~HeadingIsPhilosophy /\ ~HasFresh)
           => (pc = "DeadEnd" /\ ~ENABLED Next)
    /\ \A s \in Texts :
           (web = CycleWeb(s) /\ max_page_number >= 2 /\ pc # "Running") =>
               /\ pc = "DeadEnd"
               /\ current_url = PageUrl("B")
               /\ visited_pages = {PageUrl("A"), PageUrl("B")}
               /\ requests_made = 2

C5_Witness ==
    /\ web \in {CycleWeb(s) : s \in Texts}
    /\ pc = "DeadEnd"
    /\ Cardinality(visited_pages) = 2
    /\ ~HasFresh

\* C6 (as claimed): every run ends with exit code 0: the average is never
\* computed with a divisor of 0.
C6_ExitCodeZero == pc # "Running" => exit_code = 0

\* C7 (as claimed): a failed fetch, or a page lacking the heading node or the
\* main-content node, ends the run in Failed and in no other verdict.
C7_BadPageFails ==
    /\ (pages_fetched > 0 /\ (~heading.found \/ ~content.found)) => pc = "Failed"
    /\ requests_made > pages_fetched => pc = "Failed"

\* C8 (as claimed): after each of the three verdicts the top-words line and the
\* average line are printed (stated for budgets of at least 1).
C8_VerdictThenStatistics ==
    (max_page_number >= 1 /\ pc \in Verdicts) => StatisticsPrinted

\* C9: on a chain P1 -> ... -> Pn of distinct pages where only Pn is headed
\* "Philosophy" and every page has one qualifying unvisited link, a run from P1
\* with max_page_number >= n ends in FoundPhilosophy after exactly n fetches and
\* prints n-1 as the iteration count.
C9_ChainReachesPhilosophy ==
    \A n \in 1..MaxChain, s \in Texts :
        (web = ChainWeb(n, s) /\ max_page_number >= n) =>
            /\ pc = "Running" => requests_made < n
            /\ pc # "Running" =>
                   /\ pc = "FoundPhilosophy"
                   /\ requests_made = n
                   /\ \E k \in 1..Len(out) :
                          out[k].line = "found" /\ out[k].iterations = n - 1
                   /\ \A k \in 1..Len(out) :
                          out[k].line = "found" => out[k].iterations = n - 1

C9_Witness ==
    /\ web \in {ChainWeb(3, s) : s \in Texts}
    /\ pc = "FoundPhilosophy"
    /\ requests_made = 3
    /\ \E k \in 1..Len(out) : out[k].line = "found" /\ out[k].iterations = 2

\* C10: link selection returns the origin prefixed to the href of the first anchor,
\* in document order, that has an href starting with /wiki, without a colon, whose
\* absolute URL is not visited; it finds nothing exactly when there is no such anchor.
C10_FirstQualifyingAnchor ==
    pc # "Selecting" =>
        IF HasFresh
        THEN pc = "Selected" /\ url = Origin \o content.tags[FirstFresh].href
        ELSE pc = "DeadEnd"

C10_Witness ==
    /\ pc = "Selected"
    /\ Len(content.tags) = 2
    /\ content.tags[1] \in {Anchor(CategoryHref), Anchor(OtherHref), AnchorNoHref}
    /\ url = Origin \o content.tags[2].href

----------------------------------------------------------------------------
(* Properties of the statistics, the visited set and the printed lines *)

\* the tokens of one text fragment whose prepared form is not empty
CountedTokens(fragment) ==
    Cardinality({k \in 1..Len(Split(fragment)) :
                     StripAndLowercaseTheWord(Split(fragment)[k]) # <<>>})

RECURSIVE TokensOnPage(_)
TokensOnPage(strings) ==
    IF strings = <<>> THEN 0
    ELSE CountedTokens(Head(strings)) + TokensOnPage(Tail(strings))

\* C11 (as claimed): every fetched page adds to the total word count the number
\* of whitespace-separated tokens of its text fragments whose prepared form is
\* not empty, one recorded word per such token.
C11_EveryTokenCounted ==
    [][(pages_fetched' > pages_fetched /\ content'.found) =>
           total_words' - total_words = TokensOnPage(content'.strings)]_vars

\* C12: no step removes an element of the visited set, every fetch puts the
\* final URL of its page into the set (so the pages of earlier iterations stay in
\* it), and the link selection of that iteration already sees it: the URL it
\* stores is never the page just fetched.
C12_VisitedGrows ==
    [][/\ visited_pages \subseteq visited_pages'
       /\ pages_fetched' > pages_fetched => current_url' \in visited_pages'
       /\ (pages_fetched' > pages_fetched /\ content'.found /\ pc' # "DeadEnd")
              => url' # current_url']_vars

C12_Witness ==
    /\ pc = "Running"
    /\ pages_fetched >= 2
    /\ Cardinality(visited_pages) >= 2
    /\ current_url \in visited_pages

\* C13: the total word count is the sum of the counts of the word counter, no
\* key of the counter is the empty string, and every stored count is at least 1.
C13_CounterMatchesTotal ==
    /\ BagCardinality(wiki_words_counter) = total_words
    /\ \A w \in BagToSet(wiki_words_counter) :
           /\ w # <<>>
           /\ wiki_words_counter[w] >= 1

C13_Witness ==
    /\ total_words >= 4
    /\ \E w \in BagToSet(wiki_words_counter) : wiki_words_counter[w] >= 2
    /\ Cardinality(BagToSet(wiki_words_counter)) >= 2

\* C14: every average that is printed (after FoundPhilosophy or Exhausted) is the
\* truncating quotient of the total word count by the number of pages fetched in
\* the run: the divisor is i+1 when Philosophy is found at index i and
\* max_page_number at exhaustion, and both are the number of completed fetches.
C14_AverageIsQuotient ==
    /\ pc = "FoundPhilosophy" => (i + 1 = pages_fetched /\ StatisticsPrinted)
    /\ pc = "Exhausted" => max_page_number = pages_fetched
    /\ \A k \in 1..Len(out) :
           out[k].line = "average" =>
               /\ pc \in {"FoundPhilosophy", "Exhausted"}
               /\ pages_fetched >= 1
               /\ pages_fetched = requests_made
               /\ out[k].words * pages_fetched <= total_words
               /\ total_words < (out[k].words + 1) * pages_fetched

C14_Witness ==
    /\ pc \in {"FoundPhilosophy", "Exhausted"}
    /\ StatisticsPrinted
    /\ pages_fetched >= 2
    /\ total_words % pages_fetched # 0

\* C15 (as claimed): on DeadEnd the URL printed for diagnosis is the final
\* (post-redirect) URL of the page fetched in that iteration, the value just added
\* to the visited set.
C15_DeadEndReportsFinalUrl ==
    pc = "DeadEnd" =>
        /\ out[Len(out)].line = "loop_url"
        /\ out[Len(out)].url = current_url
        /\ out[Len(out)].url \in visited_pages

HeadingLinesPrinted == Cardinality({k \in 1..Len(out) : out[k].line = "heading"})

\* C16 (as claimed): the heading of every successfully fetched page is printed in
\* its own iteration, so the printed headings are as many as the pages fetched,
\* the last page of a run that ends in DeadEnd included.
C16_HeadingPrintedPerPage ==
    (pc # "Failed" /\ (pages_fetched > 0 => heading.found))
        => HeadingLinesPrinted = pages_fetched

\* the strip set as the specification lists it: parentheses, brackets, quotes,
\* hyphen, period, comma, colon, semicolon, slash, backslash, caret, percent,
\* hash, ampersand, exclamation mark, question mark
ListedStripSet ==
    {"(", ")", "[", "]", "\"", "'", "-", ".", ",", ":", ";", "/", "\\", "^", "%",
     "#", "&", "!", "?"}

ReferenceLower(c) == IF c = "B" THEN "b" ELSE c

\* the token without its longest prefix and suffix of characters of strip_set,
\* interior characters kept, lowercased
Reference(token, strip_set) ==
    LET kept == {k \in 1..Len(token) : token[k] \notin strip_set}
    IN IF kept = {} THEN <<>>
       ELSE LET first == CHOOSE k \in kept : \A j \in kept : k <= j
                last == CHOOSE k \in kept : \A j \in kept : j <= k
            IN [k \in 1..(last - first + 1) |-> ReferenceLower(token[first + k - 1])]

NormalizeAgrees(strip_set) ==
    pc = "Stripped" =>
        /\ returned_word = Reference(given_word, strip_set)
        /\ (\A k \in 1..Len(given_word) : given_word[k] \in strip_set)
               => returned_word = <<>>
        /\ (\E k \in 1..Len(given_word) : given_word[k] \notin strip_set)
               => returned_word # <<>>

\* C17 (as claimed): for every token, normalize removes the longest prefix and
\* suffix made of characters of exactly the strip set the specification lists,
\* keeps the interior and lowercases; only-strip-set tokens give the empty
\* string, and any other token never does.
C17_NormalizeListedSet == NormalizeAgrees(ListedStripSet)

\* C17 (amended): the same with the strip set of the code, which is the listed
\* set and the at sign.
C17_NormalizeCodeSet == NormalizeAgrees(ListedStripSet \cup {"@"})

C17_Witness ==
    /\ pc = "Stripped"
    /\ Len(given_word) = 3
    /\ given_word[1] = "@"
    /\ given_word[2] = "B"
    /\ given_word[3] \in ListedStripSet
    /\ returned_word = <<"b">>

====
